---- MODULE Spec2Model ----
(***************************************************************************)
(* Model of the cdevents webhook adapter: CDEventAdapter.Process           *)
(* (internal/adapter/adapter.go) driving the translator registry of main   *)
(* and the four Gitea translators (internal/translator).                   *)
(*                                                                         *)
(* Strings that the code takes apart (routing subjects, repository URLs)   *)
(* are sequences of tokens; "." is the separator token of a subject.       *)
(* Strings that the code only builds are TLA+ strings joined with \o.      *)
(***************************************************************************)
EXTENDS Integers, Sequences, FiniteSets, TLC

\* The worker and the Process call it is in.
VARIABLES pc, msg, metadata, translator, cdEvent, calls, ret

\* main: its configuration, its position, the signal task, the handles of
\* startup, the HTTP server, the done channel, the delivery callback, the
\* broker connection, the last HTTP response, how the process ended, and the
\* number of Process calls in flight.
VARIABLES env, mainPc, sigPc, webhookStream, eventStream, consContext, srv,
          done, cb, connected, resp, exit, inFlight

\* The number of messages the broker has handed to the delivery callback, and
\* the delivery number of the last message the worker received.
VARIABLES delivered, taken

mainVars == <<env, mainPc, sigPc, webhookStream, eventStream, consContext,
              srv, done, connected, resp>>

vars == <<pc, msg, metadata, translator, cdEvent, calls, ret,
          env, mainPc, sigPc, webhookStream, eventStream, consContext, srv,
          done, cb, connected, resp, exit, inFlight, delivered, taken>>

(***************************************************************************)
(* Bounds of the input space.                                              *)
(***************************************************************************)
MaxSubjectLen == 3      \* tokens in an enumerated routing subject
MaxCommits == 2         \* entries of a push payload's commits list
MaxTotalCommits == 2    \* total_commits of a push payload
MaxDeliveries == 2      \* messages the broker delivers in one run

(***************************************************************************)
(* String helpers.                                                         *)
(***************************************************************************)
RECURSIVE Flatten(_)
Flatten(toks) ==
    IF toks = <<>> THEN "" ELSE Head(toks) \o Flatten(Tail(toks))

\* strings.Split(s, "."): always at least one part, "" splits into [""].
RECURSIVE Split(_)
Split(s) ==
    IF s = <<>> THEN << <<>> >>
    ELSE LET rest == Split(Tail(s)) IN
         IF Head(s) = "." THEN << <<>> >> \o rest
         ELSE << <<Head(s)>> \o Head(rest) >> \o Tail(rest)

\* strings.Join(parts, ".")
RECURSIVE Join(_)
Join(parts) ==
    IF parts = <<>> THEN <<>>
    ELSE IF Len(parts) = 1 THEN parts[1]
    ELSE parts[1] \o <<".">> \o Join(Tail(parts))

RECURSIVE SeqsUpTo(_, _)
SeqsUpTo(S, n) ==
    IF n = 0 THEN {<<>>}
    ELSE LET shorter == SeqsUpTo(S, n - 1) IN
         shorter \cup {Append(s, x) : s \in shorter, x \in S}

(***************************************************************************)
(* Repository URLs (net/url as used by addSourcesFromRepositoryUrl).       *)
(***************************************************************************)
SchemeTok == "http://"
HostTok == "git.example.com"
PortTok == ":3000"
PathTok == "/yoloco/project1"
BadEscapeTok == "%zz"

RawUrls ==
    { <<>>,                                      \* html_url missing
      <<SchemeTok, HostTok, PathTok>>,
      <<SchemeTok, HostTok, PortTok, PathTok>>,
      <<HostTok, PathTok>>,                      \* no scheme
      <<SchemeTok, HostTok, PathTok, BadEscapeTok>> }

RECURSIVE TakeHost(_)
TakeHost(toks) ==
    IF toks = <<>> \/ Head(toks) = PathTok THEN <<>>
    ELSE <<Head(toks)>> \o TakeHost(Tail(toks))

RECURSIVE DropHost(_)
DropHost(toks) ==
    IF toks = <<>> \/ Head(toks) = PathTok THEN toks
    ELSE DropHost(Tail(toks))

HasTok(toks, t) == \E i \in 1..Len(toks) : toks[i] = t

\* url.Parse: an invalid escape is an error; the authority is only
\* recognised after a scheme, otherwise the whole string is the path.
UrlParse(raw) ==
    IF HasTok(raw, BadEscapeTok)
    THEN [ok |-> FALSE, Host |-> <<>>, Path |-> <<>>]
    ELSE IF raw # <<>> /\ Head(raw) = SchemeTok
    THEN [ok |-> TRUE, Host |-> TakeHost(Tail(raw)), Path |-> DropHost(Tail(raw))]
    ELSE [ok |-> TRUE, Host |-> <<>>, Path |-> raw]

\* url.JoinPath(base, elem): base is parsed as a URL of its own, and a
\* scheme-less first path segment holding a colon is rejected; otherwise
\* the cleaned join of a relative base and elem is their concatenation.
UrlJoinPath(base, elem) ==
    IF HasTok(base, PortTok)
    THEN [ok |-> FALSE, url |-> ""]
    ELSE [ok |-> TRUE, url |-> Flatten(base) \o Flatten(elem)]

(***************************************************************************)
(* Webhook payloads: the form of the bytes and, for an object, the fields  *)
(* the translators read; a field absent from the JSON has Go's zero value. *)
(***************************************************************************)
JsonForms == {"object", "objectMistyped", "null", "array", "invalid"}

CommitIds == {"c1", "c2"}

ZeroPayload ==
    [json |-> "object", total_commits |-> 0, commits |-> <<>>,
     head_commit |-> "", action |-> "", pr_id |-> 0, ref_type |-> "",
     ref |-> "", full_name |-> "", html_url |-> <<>>]

\* Every shape of the commit fields with the URL of the tests, and every
\* URL with a single commit.
PushPayloads ==
    {[ZeroPayload EXCEPT !.total_commits = n, !.commits = cs,
                         !.head_commit = h, !.full_name = "yoloco/project1",
                         !.html_url = <<SchemeTok, HostTok, PathTok>>] :
        n \in 0..MaxTotalCommits, cs \in SeqsUpTo(CommitIds, MaxCommits),
        h \in CommitIds}
    \cup
    {[ZeroPayload EXCEPT !.total_commits = 1, !.commits = <<"c1">>,
                         !.head_commit = "c1", !.full_name = "yoloco/project1",
                         !.html_url = u] : u \in RawUrls}

PullRequestPayloads ==
    {[ZeroPayload EXCEPT !.action = a, !.pr_id = 3,
                         !.full_name = "yoloco/project1", !.html_url = u] :
        a \in {"opened", "closed", "edited"}, u \in RawUrls}

RefPayloads ==
    {[ZeroPayload EXCEPT !.ref_type = t, !.ref = r,
                         !.full_name = "yoloco/project1", !.html_url = u] :
        t \in {"branch", "tag"}, r \in {"foo", ""}, u \in RawUrls}

OtherPayloads == {[ZeroPayload EXCEPT !.json = j] : j \in JsonForms}

Payloads == PushPayloads \cup PullRequestPayloads \cup RefPayloads \cup OtherPayloads

(***************************************************************************)
(* json.Unmarshal                                                          *)
(***************************************************************************)
ErrJsonSyntax == "invalid character 'x' looking for beginning of value"
ErrJsonType == "json: cannot unmarshal value into Go value"

\* into map[string]interface{} (Process): any object or null is accepted.
UnmarshalMap(data) ==
    CASE data.json \in {"object", "objectMistyped", "null"} -> "<nil>"
      [] data.json = "array" -> ErrJsonType
      [] OTHER -> ErrJsonSyntax

\* into one of the Gitea event structs (Translate): the fields must have
\* the struct's types as well.
UnmarshalStruct(data) ==
    CASE data.json \in {"object", "null"} -> "<nil>"
      [] data.json \in {"objectMistyped", "array"} -> ErrJsonType
      [] OTHER -> ErrJsonSyntax

(***************************************************************************)
(* Canonical events.                                                       *)
(***************************************************************************)
ChangeMergedEventType == "dev.cdevents.change.merged.0.2.0"
ChangeCreatedEventType == "dev.cdevents.change.created.0.3.0"
BranchCreatedEventType == "dev.cdevents.branch.created.0.2.0"
BranchDeletedEventType == "dev.cdevents.branch.deleted.0.2.0"

NoCustomData == [Kind |-> "", Content |-> ZeroPayload]

NilEvent ==
    [type |-> "", source |-> "", subjectId |-> "", subjectSource |-> "",
     repositoryId |-> "", customData |-> NoCustomData]

\* cdeventsv04.New...Event(): a fresh event of the given type.
NewEvent(type) == [NilEvent EXCEPT !.type = type]

\* Variant: the tagged wrapper is written only when the event has no custom
\* data yet.
addGiteaEventAsCustomDataIfUnset(kind, giteaEvent, ev) ==
    IF ev.customData # NoCustomData THEN ev
    ELSE [ev EXCEPT !.customData = [Kind |-> kind, Content |-> giteaEvent]]

\* addGiteaEventAsCustomData
addGiteaEventAsCustomData(kind, giteaEvent, ev) ==
    [ev EXCEPT !.customData = [Kind |-> kind, Content |-> giteaEvent]]

\* addSourcesFromRepositoryUrl: the event as the helper leaves it; the
\* error it returns is dropped by every caller.
addSourcesFromRepositoryUrl(giteaEvent, ev) ==
    LET repoUrl == UrlParse(giteaEvent.html_url) IN
    IF ~repoUrl.ok THEN ev
    ELSE LET withSource == [ev EXCEPT !.source = Flatten(repoUrl.Host)]
             joined == UrlJoinPath(repoUrl.Host, repoUrl.Path)
         IN IF ~joined.ok THEN withSource
            ELSE [withSource EXCEPT !.subjectSource = joined.url]

(***************************************************************************)
(* Translators.  A result is an event, an error, or a panic.               *)
(***************************************************************************)
Event(ev) == [kind |-> "event", event |-> ev, err |-> "<nil>"]
Error(e) == [kind |-> "error", event |-> NilEvent, err |-> e]
Panic(e) == [kind |-> "panic", event |-> NilEvent, err |-> e]
NoResult == [kind |-> "none", event |-> NilEvent, err |-> "<nil>"]

ErrNoNewCommits == "Push event contains no new commits, will not convert to a CD Event"

GiteaPushTranslate(data) ==
    IF UnmarshalStruct(data) # "<nil>" THEN Error(UnmarshalStruct(data))
    ELSE IF data.total_commits = 0 THEN Error(ErrNoNewCommits)
    ELSE IF data.commits = <<>> THEN Panic("index out of range [0] with length 0")
    ELSE LET e1 == addSourcesFromRepositoryUrl(data, NewEvent(ChangeMergedEventType))
             e2 == [e1 EXCEPT !.subjectId = data.commits[1],
                              !.repositoryId = data.full_name]
         IN Event(addGiteaEventAsCustomData("structs.GiteaPushEvent", data, e2))

\* Variant: the "closed" case builds the same event as the "opened" case.
GiteaPullRequestTranslateClosedAsOpened(data) ==
    IF UnmarshalStruct(data) # "<nil>" THEN Error(UnmarshalStruct(data))
    ELSE IF data.action \notin {"opened", "closed"}
    THEN Error("unsupported Gitea Pull Request action: " \o data.action)
    ELSE LET e0 == [NewEvent(ChangeCreatedEventType)
                        EXCEPT !.repositoryId = data.full_name]
             e1 == addSourcesFromRepositoryUrl(data, e0)
             e2 == [e1 EXCEPT !.subjectId = "pr-" \o ToString(data.pr_id)]
             e3 == [e2 EXCEPT !.customData = [Kind |-> "", Content |-> data]]
         IN Event(addGiteaEventAsCustomData("structs.GiteaPullRequestEvent", data, e3))

GiteaPullRequestTranslate(data) ==
    IF UnmarshalStruct(data) # "<nil>" THEN Error(UnmarshalStruct(data))
    ELSE IF data.action \notin {"opened", "closed"}
    THEN Error("unsupported Gitea Pull Request action: " \o data.action)
    ELSE LET e0 == [NewEvent(IF data.action = "opened" THEN ChangeCreatedEventType
                                                       ELSE ChangeMergedEventType)
                        EXCEPT !.repositoryId = data.full_name]
             e1 == addSourcesFromRepositoryUrl(data, e0)
             e2 == [e1 EXCEPT !.subjectId = "pr-" \o ToString(data.pr_id)]
             e3 == [e2 EXCEPT !.customData = [Kind |-> "", Content |-> data]]
         IN Event(addGiteaEventAsCustomData("structs.GiteaPullRequestEvent", data, e3))

GiteaCreateTranslate(data) ==
    IF UnmarshalStruct(data) # "<nil>" THEN Error(UnmarshalStruct(data))
    ELSE IF data.ref_type # "branch"
    THEN Error("unsupported Gitea create ref type: " \o data.ref_type)
    ELSE LET e0 == [NewEvent(BranchCreatedEventType)
                        EXCEPT !.repositoryId = data.full_name]
             e1 == addSourcesFromRepositoryUrl(data, e0)
             e2 == [e1 EXCEPT !.subjectId = data.ref]
             e3 == [e2 EXCEPT !.customData = [Kind |-> "", Content |-> data]]
         IN Event(addGiteaEventAsCustomData("structs.GiteaCreateEvent", data, e3))

\* Variant: the delete translator builds the event of the create translator.
GiteaDeleteTranslateAsCreate(data) ==
    IF UnmarshalStruct(data) # "<nil>" THEN Error(UnmarshalStruct(data))
    ELSE IF data.ref_type # "branch"
    THEN Error("unsupported Gitea create ref type: " \o data.ref_type)
    ELSE LET e0 == [NewEvent(BranchCreatedEventType)
                        EXCEPT !.repositoryId = data.full_name]
             e1 == addSourcesFromRepositoryUrl(data, e0)
             e2 == [e1 EXCEPT !.subjectId = data.ref]
         IN Event(addGiteaEventAsCustomData("structs.GiteaDeleteEvent", data, e2))

GiteaDeleteTranslate(data) ==
    IF UnmarshalStruct(data) # "<nil>" THEN Error(UnmarshalStruct(data))
    ELSE IF data.ref_type # "branch"
    THEN Error("unsupported Gitea create ref type: " \o data.ref_type)
    ELSE LET e0 == [NewEvent(BranchDeletedEventType)
                        EXCEPT !.repositoryId = data.full_name]
             e1 == addSourcesFromRepositoryUrl(data, e0)
             e2 == [e1 EXCEPT !.subjectId = data.ref]
         IN Event(addGiteaEventAsCustomData("structs.GiteaDeleteEvent", data, e2))

Translate(name, data) ==
    CASE name = "GiteaPushTranslator" -> GiteaPushTranslate(data)
      [] name = "GiteaPullRequestTranslator" -> GiteaPullRequestTranslate(data)
      [] name = "GiteaCreateTranslator" -> GiteaCreateTranslate(data)
      [] name = "GiteaDeleteTranslator" -> GiteaDeleteTranslate(data)

(***************************************************************************)
(* Translator registry of main.                                            *)
(***************************************************************************)
KeyPush == <<"gitea", ".", "push">>
KeyPullRequest == <<"gitea", ".", "pull_request">>
KeyCreate == <<"gitea", ".", "create">>
KeyDelete == <<"gitea", ".", "delete">>

\* Variant: the delete key is registered with the create translator.
translatorsCopyPaste ==
    (KeyPush :> "GiteaPushTranslator") @@
    (KeyPullRequest :> "GiteaPullRequestTranslator") @@
    (KeyCreate :> "GiteaCreateTranslator") @@
    (KeyDelete :> "GiteaCreateTranslator")

translators ==
    (KeyPush :> "GiteaPushTranslator") @@
    (KeyPullRequest :> "GiteaPullRequestTranslator") @@
    (KeyCreate :> "GiteaCreateTranslator") @@
    (KeyDelete :> "GiteaDeleteTranslator")

(***************************************************************************)
(* Inbound messages.                                                       *)
(***************************************************************************)
SubjectAlphabet == {"push", "."}

Subjects ==
    SeqsUpTo(SubjectAlphabet, MaxSubjectLen) \cup
    {<<"webhooks", ".">> \o k : k \in DOMAIN translators} \cup
    { <<"webhooks", ".", "gitea", ".", "push", ".", "push">>,
      <<"webhooks", ".", "gitea", ".", "tag">>,
      <<"hooks", ".", "gitea", ".", "push">>,
      <<"org", ".", "hooks", ".", "gitea", ".", "push">> }

Messages == [subject : Subjects, data : Payloads]

NoMsg == [subject |-> <<>>, data |-> ZeroPayload]

(***************************************************************************)
(* CDEventAdapter.Process, one action per step of the function.            *)
(***************************************************************************)
Nil == "<nil>"
Running == "<running>"
ErrMetadata == "nats: not a JetStream message"
ErrPublish == "publish failed"

ErrAck == "nats: message was already acknowledged"

\* One entry of the log of calls Process makes on its collaborators:
\* who was called, with what argument, and the error it answered.
TranslateCall(name, data, r) ==
    [op |-> "Translate", who |-> name, arg |-> data,
     res |-> IF r.kind = "panic" THEN "<panic>" ELSE r.err]
PublishCall(ev, err) == [op |-> "Publish", who |-> "publisher", arg |-> ev, res |-> err]
AckCall(err) == [op |-> "Ack", who |-> "msg", arg |-> NilEvent, res |-> err]

\* Variant: the length check is off by one.
TooFewPartsOffByOne(subject) == Len(Split(subject)) < 1

\* len(subjectParts) < 2
TooFewParts(subject) == Len(Split(subject)) < 2

ErrTooFewParts(subject) ==
    "unable to determine type of message as subject has to few parts: "
        \o Flatten(subject)

\* Variant: only the second segment is taken as the routing key.
EventSubjectSecondOnly(subject) == Split(subject)[2]

\* Variant: the key is cut after its second segment, so a subject whose key
\* only starts with a registered key selects that key's translator.
EventSubjectFirstTwo(subject) ==
    LET parts == Tail(Split(subject)) IN
    Join(IF Len(parts) > 2 THEN SubSeq(parts, 1, 2) ELSE parts)

\* strings.Join(subjectParts[1:], ".")
EventSubject(subject) == Join(Tail(Split(subject)))

ErrNoTranslator(eventSubject) ==
    "no translator found for subject: " \o Flatten(eventSubject)

(***************************************************************************)
(* Configuration and the outbound stream.                                  *)
(***************************************************************************)
\* EVENT_SUBJECT_BASE: the default, and another value an operator may set.
DefaultEventSubjectBase == <<"dev", ".", "cdevents">>

EnvConfigs ==
    {[EventSubjectBase |-> b] : b \in {DefaultEventSubjectBase, <<"events">>}}

DefaultEnv == [EventSubjectBase |-> DefaultEventSubjectBase]

\* The subject an event type spells, token by token.
EventTypeSubject(type) ==
    CASE type = ChangeMergedEventType ->
           <<"dev", ".", "cdevents", ".", "change", ".", "merged", ".", "0", ".", "2", ".", "0">>
      [] type = ChangeCreatedEventType ->
           <<"dev", ".", "cdevents", ".", "change", ".", "created", ".", "0", ".", "3", ".", "0">>
      [] type = BranchCreatedEventType ->
           <<"dev", ".", "cdevents", ".", "branch", ".", "created", ".", "0", ".", "2", ".", "0">>
      [] type = BranchDeletedEventType ->
           <<"dev", ".", "cdevents", ".", "branch", ".", "deleted", ".", "0", ".", "2", ".", "0">>
      [] OTHER -> <<>>

\* cejsm.WithSendSubject(cloudEvent.Context.GetType())
SendSubject(ev) == EventTypeSubject(ev.type)

\* The outbound stream is bound to "<base>.>": it captures the subjects made
\* of the segments of base followed by one or more segments.
StreamCaptures(base, subject) ==
    /\ Len(subject) >= Len(base) + 2
    /\ SubSeq(subject, 1, Len(base)) = base
    /\ subject[Len(base) + 1] = "."

NoResp == [path |-> "", status |-> 0]

\* A step inside Process: the process is alive, and nothing of main moves.
ProcessStep ==
    /\ exit = "running"
    /\ UNCHANGED <<mainVars, cb, exit, inFlight, delivered, taken>>

\* The adapter is constructed, the worker waits for messages, the HTTP
\* server serves.
Init ==
    /\ pc = "idle"
    /\ msg = NoMsg
    /\ metadata = "none"
    /\ translator = ""
    /\ cdEvent = NoResult
    /\ calls = <<>>
    /\ ret = Running
    /\ env = DefaultEnv
    /\ mainPc = "serving"
    /\ sigPc = "waitSignal"
    /\ webhookStream = "ok"
    /\ eventStream = "ok"
    /\ consContext = "active"
    /\ srv = "serving"
    /\ done = FALSE
    /\ cb = "idle"
    /\ connected = TRUE
    /\ resp = NoResp
    /\ exit = "running"
    /\ inFlight = 0
    /\ delivered = 0
    /\ taken = 0

\* Variant: the callback does not wait for the worker; a delivery replaces
\* the one still waiting in the channel.
CallbackSendNonBlocking ==
    /\ exit = "running"
    /\ consContext = "active"
    /\ delivered < MaxDeliveries
    /\ delivered' = delivered + 1
    /\ cb' = "sending"
    /\ UNCHANGED <<pc, msg, metadata, translator, cdEvent, calls, ret,
                   mainVars, exit, inFlight, taken>>

\* The delivery callback of consumer.Consume: messages <- msg blocks until
\* the worker receives.
CallbackSend ==
    /\ exit = "running"
    /\ consContext = "active"
    /\ cb = "idle"
    /\ delivered < MaxDeliveries
    /\ delivered' = delivered + 1
    /\ cb' = "sending"
    /\ UNCHANGED <<pc, msg, metadata, translator, cdEvent, calls, ret,
                   mainVars, exit, inFlight, taken>>

\* Variant: every delivery gets a Process call of its own, whether or not
\* the previous one has returned.
ProcessBeginPerDelivery(m) ==
    /\ exit = "running"
    /\ pc \in {"idle", "metadata", "decode", "route", "translate", "publish", "ack"}
    /\ cb = "sending"
    /\ cb' = "idle"
    /\ inFlight' = inFlight + 1
    /\ taken' = delivered
    /\ delivered' = delivered
    /\ pc' = "metadata"
    /\ msg' = m
    /\ metadata' = "none"
    /\ translator' = ""
    /\ cdEvent' = NoResult
    /\ calls' = <<>>
    /\ ret' = Running
    /\ UNCHANGED <<mainVars, exit>>

\* case msg := <-messages: the worker takes the message the callback offers
\* and enters Process with it; msg.Ack is deferred.
ProcessBegin(m) ==
    /\ exit = "running"
    /\ pc = "idle"
    /\ cb = "sending"
    /\ cb' = "idle"
    /\ inFlight' = inFlight + 1
    /\ taken' = delivered
    /\ delivered' = delivered
    /\ UNCHANGED <<mainVars, exit>>
    /\ pc' = "metadata"
    /\ msg' = m
    /\ metadata' = "none"
    /\ translator' = ""
    /\ cdEvent' = NoResult
    /\ calls' = <<>>
    /\ ret' = Running

\* Variant: the acknowledgment is deferred only after the metadata check,
\* so a metadata failure returns without it.
ProcessMetadataBeforeDefer ==
    /\ pc = "metadata"
    /\ \E ok \in BOOLEAN :
         IF ok
         THEN /\ metadata' = "ok"
              /\ pc' = "decode"
              /\ ret' = ret
         ELSE /\ metadata' = "err"
              /\ pc' = "returned"
              /\ ret' = ErrMetadata
    /\ UNCHANGED <<msg, translator, cdEvent, calls>>
    /\ ProcessStep

\* metadata, err := msg.Metadata()
ProcessMetadata ==
    /\ pc = "metadata"
    /\ \E ok \in BOOLEAN :
         IF ok
         THEN /\ metadata' = "ok"
              /\ pc' = "decode"
              /\ ret' = ret
         ELSE /\ metadata' = "err"
              /\ pc' = "ack"
              /\ ret' = ErrMetadata
    /\ UNCHANGED <<msg, translator, cdEvent, calls>>
    /\ ProcessStep

\* Variant: the subject is split before the payload is decoded, so a subject
\* of one segment fails on its parts whatever the payload is.
ProcessDecodeSubjectFirst ==
    /\ pc = "decode"
    /\ IF TooFewParts(msg.subject)
       THEN /\ pc' = "ack"
            /\ ret' = ErrTooFewParts(msg.subject)
       ELSE IF UnmarshalMap(msg.data) # Nil
       THEN /\ pc' = "ack"
            /\ ret' = UnmarshalMap(msg.data)
       ELSE /\ pc' = "route"
            /\ ret' = ret
    /\ UNCHANGED <<msg, metadata, translator, cdEvent, calls>>
    /\ ProcessStep

\* json.Unmarshal(msg.Data(), &v)
ProcessDecode ==
    /\ pc = "decode"
    /\ IF UnmarshalMap(msg.data) # Nil
       THEN /\ pc' = "ack"
            /\ ret' = UnmarshalMap(msg.data)
       ELSE /\ pc' = "route"
            /\ ret' = ret
    /\ UNCHANGED <<msg, metadata, translator, cdEvent, calls>>
    /\ ProcessStep

\* split the subject, derive the routing key, look the translator up
ProcessRoute ==
    /\ pc = "route"
    /\ IF TooFewParts(msg.subject)
       THEN /\ pc' = "ack"
            /\ ret' = ErrTooFewParts(msg.subject)
            /\ translator' = translator
       ELSE IF EventSubject(msg.subject) \notin DOMAIN translators
       THEN /\ pc' = "ack"
            /\ ret' = ErrNoTranslator(EventSubject(msg.subject))
            /\ translator' = translator
       ELSE /\ pc' = "translate"
            /\ ret' = ret
            /\ translator' = translators[EventSubject(msg.subject)]
    /\ UNCHANGED <<msg, metadata, cdEvent, calls>>
    /\ ProcessStep

\* Variant: a translation error is not returned and Process goes on to publish.
ProcessTranslateIgnoresError ==
    /\ pc = "translate"
    /\ LET r == Translate(translator, msg.data) IN
       /\ cdEvent' = r
       /\ calls' = Append(calls, TranslateCall(translator, msg.data, r))
       /\ IF r.kind \in {"event", "error"}
          THEN pc' = "publish" /\ ret' = ret
          ELSE pc' = "ack" /\ ret' = ret
    /\ UNCHANGED <<msg, metadata, translator>>
    /\ ProcessStep

\* cdEvent, err := translator.Translate(msg.Data())
ProcessTranslate ==
    /\ pc = "translate"
    /\ LET r == Translate(translator, msg.data) IN
       /\ cdEvent' = r
       /\ calls' = Append(calls, TranslateCall(translator, msg.data, r))
       /\ IF r.kind = "event"
          THEN pc' = "publish" /\ ret' = ret
          ELSE IF r.kind = "error"
          THEN pc' = "ack" /\ ret' = r.err
          ELSE pc' = "ack" /\ ret' = ret      \* panic: unwinding, no return value
    /\ UNCHANGED <<msg, metadata, translator>>
    /\ ProcessStep

\* Variant: the error of Publish is dropped and Process returns nil.
ProcessPublishSwallowsError ==
    /\ pc = "publish"
    /\ \E err \in {Nil, ErrPublish} :
         /\ err = Nil =>
                StreamCaptures(env.EventSubjectBase, SendSubject(cdEvent.event))
         /\ calls' = Append(calls, PublishCall(cdEvent.event, err))
         /\ ret' = Nil
    /\ pc' = "ack"
    /\ UNCHANGED <<msg, metadata, translator, cdEvent>>
    /\ ProcessStep

\* c.publisher.Publish(cdEvent): the event is sent to the subject its type
\* spells; the JetStream publish succeeds only when a stream stores it.
ProcessPublish ==
    /\ pc = "publish"
    /\ \E err \in {Nil, ErrPublish} :
         /\ err = Nil =>
                StreamCaptures(env.EventSubjectBase, SendSubject(cdEvent.event))
         /\ calls' = Append(calls, PublishCall(cdEvent.event, err))
         /\ ret' = err
    /\ pc' = "ack"
    /\ UNCHANGED <<msg, metadata, translator, cdEvent>>
    /\ ProcessStep

\* Variant: a failed acknowledgment becomes the error of a Process call that
\* had none.
ProcessAckReturnsError ==
    /\ pc = "ack"
    /\ \E err \in {Nil, ErrAck} :
         /\ calls' = Append(calls, AckCall(err))
         /\ ret' = IF ret = Nil /\ err # Nil THEN err ELSE ret
    /\ pc' = IF cdEvent.kind = "panic" THEN "panicked" ELSE "returned"
    /\ exit = "running"
    /\ exit' = IF cdEvent.kind = "panic" THEN "panic" ELSE exit
    /\ inFlight' = inFlight - 1
    /\ UNCHANGED <<msg, metadata, translator, cdEvent, mainVars, cb,
                   delivered, taken>>

\* the deferred msg.Ack() runs on the way out; its result is discarded
ProcessAck ==
    /\ pc = "ack"
    /\ \E err \in {Nil, ErrAck} : calls' = Append(calls, AckCall(err))
    /\ pc' = IF cdEvent.kind = "panic" THEN "panicked" ELSE "returned"
    /\ exit = "running"
    /\ exit' = IF cdEvent.kind = "panic" THEN "panic" ELSE exit
    /\ inFlight' = inFlight - 1
    /\ UNCHANGED <<msg, metadata, translator, cdEvent, ret, mainVars, cb,
                   delivered, taken>>

\* Process has returned to the worker, which logs the error, if any, and
\* goes back to wait for the next message.
WorkerLoop ==
    /\ pc = "returned"
    /\ pc' = "idle"
    /\ msg' = NoMsg
    /\ metadata' = "none"
    /\ translator' = ""
    /\ cdEvent' = NoResult
    /\ calls' = <<>>
    /\ ret' = Running
    /\ ProcessStep

Next ==
    \/ CallbackSend
    \/ \E m \in Messages : ProcessBegin(m)
    \/ WorkerLoop
    \/ ProcessMetadata
    \/ ProcessDecode
    \/ ProcessRoute
    \/ ProcessTranslate
    \/ ProcessPublish
    \/ ProcessAck

Spec == Init /\ [][Next]_vars

(***************************************************************************)
(* main: startup, the worker's stop, the HTTP handlers and shutdown.       *)
(***************************************************************************)
procUnchanged == UNCHANGED <<pc, msg, metadata, translator, cdEvent, calls, ret>>

\* What the broker answers to CreateStream, and to UpdateStream after
\* ErrStreamNameAlreadyInUse.
CreateOutcomes == {"created", "updated", "updateFailed", "createFailed"}

\* MustCreateStream: the handle it returns, or "exit" for os.Exit(1).  Any
\* CreateStream error but ErrStreamNameAlreadyInUse is logged only, and the
\* nil handle of the failed call is returned.
MustCreateStream(outcome) ==
    CASE outcome \in {"created", "updated"} -> "ok"
      [] outcome = "updateFailed" -> "exit"
      [] outcome = "createFailed" -> "nil"

\* The messages the lifecycle is explored with: one that is published, one
\* that makes the push translator panic, one that fails to translate, one
\* that does not decode.
GoodPush ==
    [ZeroPayload EXCEPT !.total_commits = 1, !.commits = <<"c1">>,
                        !.head_commit = "c1", !.full_name = "yoloco/project1",
                        !.html_url = <<SchemeTok, HostTok, PathTok>>]

LifecycleMessages ==
    { [subject |-> <<"webhooks", ".">> \o KeyPush, data |-> GoodPush],
      [subject |-> <<"webhooks", ".">> \o KeyPush,
       data |-> [GoodPush EXCEPT !.commits = <<>>]],
      [subject |-> <<"webhooks", ".">> \o KeyPush,
       data |-> [GoodPush EXCEPT !.total_commits = 0]],
      [subject |-> <<"webhooks", ".">> \o KeyCreate,
       data |-> [ZeroPayload EXCEPT !.json = "invalid"]] }

\* The process starts: nothing is connected, no goroutine runs.
InitMain ==
    /\ pc = "notStarted"
    /\ msg = NoMsg
    /\ metadata = "none"
    /\ translator = ""
    /\ cdEvent = NoResult
    /\ calls = <<>>
    /\ ret = Running
    /\ env \in EnvConfigs
    /\ mainPc = "connect"
    /\ sigPc = "notStarted"
    /\ webhookStream = "unset"
    /\ eventStream = "unset"
    /\ consContext = "unset"
    /\ srv = "new"
    /\ done = FALSE
    /\ cb = "idle"
    /\ connected = FALSE
    /\ resp = NoResp
    /\ exit = "running"
    /\ inFlight = 0
    /\ delivered = 0
    /\ taken = 0

\* nats.Connect and natsjs.New: a failure is os.Exit(1).
MainConnect ==
    /\ exit = "running"
    /\ mainPc = "connect"
    /\ \E ok \in BOOLEAN :
         IF ok
         THEN /\ connected' = TRUE
              /\ mainPc' = "webhookStream"
              /\ exit' = exit
         ELSE /\ exit' = "startup"
              /\ UNCHANGED <<connected, mainPc>>
    /\ UNCHANGED <<env, sigPc, webhookStream, eventStream, consContext, srv,
                   done, resp, cb, inFlight, delivered, taken>>
    /\ procUnchanged

\* WebhookStreamName := MustCreateStream(...)
MainCreateWebhookStream ==
    /\ exit = "running"
    /\ mainPc = "webhookStream"
    /\ \E o \in CreateOutcomes :
         IF MustCreateStream(o) = "exit"
         THEN /\ exit' = "startup"
              /\ UNCHANGED <<webhookStream, mainPc>>
         ELSE /\ webhookStream' = MustCreateStream(o)
              /\ mainPc' = "eventStream"
              /\ exit' = exit
    /\ UNCHANGED <<env, sigPc, eventStream, consContext, srv, done, connected,
                   resp, cb, inFlight, delivered, taken>>
    /\ procUnchanged

\* MustCreateStream(...) for the outbound stream; the handle is dropped.
MainCreateEventStream ==
    /\ exit = "running"
    /\ mainPc = "eventStream"
    /\ \E o \in CreateOutcomes :
         IF MustCreateStream(o) = "exit"
         THEN /\ exit' = "startup"
              /\ UNCHANGED <<eventStream, mainPc>>
         ELSE /\ eventStream' = MustCreateStream(o)
              /\ mainPc' = "consumer"
              /\ exit' = exit
    /\ UNCHANGED <<env, sigPc, webhookStream, consContext, srv, done,
                   connected, resp, cb, inFlight, delivered, taken>>
    /\ procUnchanged

\* WebhookStreamName.CreateOrUpdateConsumer(...): a method call on the nil
\* handle panics; an error is os.Exit(1).
MainCreateConsumer ==
    /\ exit = "running"
    /\ mainPc = "consumer"
    /\ IF webhookStream = "nil"
       THEN /\ exit' = "panic"
            /\ mainPc' = mainPc
       ELSE \E ok \in BOOLEAN :
              IF ok
              THEN mainPc' = "consume" /\ exit' = exit
              ELSE mainPc' = mainPc /\ exit' = "startup"
    /\ UNCHANGED <<env, sigPc, webhookStream, eventStream, consContext, srv,
                   done, connected, resp, cb, inFlight, delivered, taken>>
    /\ procUnchanged

\* consContext, _ := consumer.Consume(...): the error is dropped, and a
\* failed call leaves a nil consContext.
MainConsume ==
    /\ exit = "running"
    /\ mainPc = "consume"
    /\ \E ok \in BOOLEAN : consContext' = IF ok THEN "active" ELSE "nil"
    /\ mainPc' = "startWorker"
    /\ UNCHANGED <<env, sigPc, webhookStream, eventStream, srv, done,
                   connected, resp, cb, exit, inFlight, delivered, taken>>
    /\ procUnchanged

\* wg.Add(1); go func() { ... }(): the worker goroutine starts at its select.
MainStartWorker ==
    /\ exit = "running"
    /\ mainPc = "startWorker"
    /\ mainPc' = "startSignalTask"
    /\ pc' = "idle"
    /\ UNCHANGED <<msg, metadata, translator, cdEvent, calls, ret>>
    /\ UNCHANGED <<env, sigPc, webhookStream, eventStream, consContext, srv,
                   done, connected, resp, cb, exit, inFlight, delivered, taken>>

\* wg.Add(1); go func() { signal.Notify(...); s := <-interrupt ... }()
MainStartSignalTask ==
    /\ exit = "running"
    /\ mainPc = "startSignalTask"
    /\ mainPc' = "listen"
    /\ sigPc' = "waitSignal"
    /\ UNCHANGED <<env, webhookStream, eventStream, consContext, srv, done,
                   connected, resp, cb, exit, inFlight, delivered, taken>>
    /\ procUnchanged

\* srv.ListenAndServe() is called: after Shutdown it returns
\* ErrServerClosed at once; otherwise it serves, or fails to listen, which
\* is os.Exit(1).
MainListenAndServe ==
    /\ exit = "running"
    /\ mainPc = "listen"
    /\ IF srv = "closed"
       THEN /\ mainPc' = "closeDone"
            /\ UNCHANGED <<srv, exit>>
       ELSE \E ok \in BOOLEAN :
              IF ok
              THEN /\ srv' = "serving"
                   /\ mainPc' = "serving"
                   /\ exit' = exit
              ELSE /\ exit' = "listen"
                   /\ UNCHANGED <<srv, mainPc>>
    /\ UNCHANGED <<env, sigPc, webhookStream, eventStream, consContext, done,
                   connected, resp, cb, inFlight, delivered, taken>>
    /\ procUnchanged

\* srv.ListenAndServe() returns ErrServerClosed once Shutdown was called.
MainServeReturns ==
    /\ exit = "running"
    /\ mainPc = "serving"
    /\ srv = "closed"
    /\ mainPc' = "closeDone"
    /\ UNCHANGED <<env, sigPc, webhookStream, eventStream, consContext, srv,
                   done, connected, resp, cb, exit, inFlight, delivered, taken>>
    /\ procUnchanged

\* close(done)
MainCloseDone ==
    /\ exit = "running"
    /\ mainPc = "closeDone"
    /\ done' = TRUE
    /\ mainPc' = "wait"
    /\ UNCHANGED <<env, sigPc, webhookStream, eventStream, consContext, srv,
                   connected, resp, cb, exit, inFlight, delivered, taken>>
    /\ procUnchanged

\* case <-c: wg.Wait() returned, the worker and the signal task are done;
\* main returns.
MainAllDone ==
    /\ exit = "running"
    /\ mainPc = "wait"
    /\ pc = "stopped"
    /\ sigPc = "done"
    /\ exit' = "done"
    /\ UNCHANGED <<mainVars, cb, inFlight, delivered, taken>>
    /\ procUnchanged

\* Variant: the 30 s timer is armed only once wg.Wait() has returned.
MainTimeoutAfterWait ==
    /\ exit = "running"
    /\ mainPc = "wait"
    /\ pc = "stopped"
    /\ sigPc = "done"
    /\ exit' = "timeout"
    /\ UNCHANGED <<mainVars, cb, inFlight, delivered, taken>>
    /\ procUnchanged

\* case <-time.After(time.Second * 30): os.Exit(1)
MainTimeout ==
    /\ exit = "running"
    /\ mainPc = "wait"
    /\ exit' = "timeout"
    /\ UNCHANGED <<mainVars, cb, inFlight, delivered, taken>>
    /\ procUnchanged

\* SIGINT or SIGTERM arrives: the signal task receives it from interrupt;
\* before signal.Notify it ends the process.
Signal ==
    /\ exit = "running"
    /\ sigPc \in {"notStarted", "waitSignal"}
    /\ IF sigPc = "waitSignal"
       THEN sigPc' = "shutdown" /\ exit' = exit
       ELSE sigPc' = sigPc /\ exit' = "killed"
    /\ UNCHANGED <<env, mainPc, webhookStream, eventStream, consContext, srv,
                   done, connected, resp, cb, inFlight, delivered, taken>>
    /\ procUnchanged

\* srv.Shutdown(shutdownCtx) is called: the listener is closed.
SigShutdownBegin ==
    /\ exit = "running"
    /\ sigPc = "shutdown"
    /\ srv' = "closed"
    /\ sigPc' = "shuttingDown"
    /\ UNCHANGED <<env, mainPc, webhookStream, eventStream, consContext, done,
                   connected, resp, cb, exit, inFlight, delivered, taken>>
    /\ procUnchanged

\* srv.Shutdown returns: nil and the task is done, or an error (its 10 s
\* are over) and os.Exit(1).
SigShutdownEnd ==
    /\ exit = "running"
    /\ sigPc = "shuttingDown"
    /\ \E ok \in BOOLEAN :
         IF ok
         THEN sigPc' = "done" /\ exit' = exit
         ELSE sigPc' = sigPc /\ exit' = "shutdown"
    /\ UNCHANGED <<env, mainPc, webhookStream, eventStream, consContext, srv,
                   done, connected, resp, cb, inFlight, delivered, taken>>
    /\ procUnchanged

\* case <-done: the worker returns; the deferred consContext.Stop() runs (a
\* nil consContext panics), then wg.Done().
WorkerStop ==
    /\ exit = "running"
    /\ pc = "idle"
    /\ done
    /\ IF consContext = "nil"
       THEN /\ pc' = "panicked"
            /\ exit' = "panic"
            /\ consContext' = consContext
       ELSE /\ pc' = "stopped"
            /\ exit' = exit
            /\ consContext' = "stopped"
    /\ UNCHANGED <<msg, metadata, translator, cdEvent, calls, ret>>
    /\ UNCHANGED <<env, mainPc, sigPc, webhookStream, eventStream, srv, done,
                   connected, resp, cb, inFlight, delivered, taken>>

\* The connection to the broker is lost or established again.
ConnectionChange ==
    /\ exit = "running"
    /\ mainPc \notin {"connect"}
    /\ connected' = ~connected
    /\ UNCHANGED <<env, mainPc, sigPc, webhookStream, eventStream, consContext,
                   srv, done, resp, cb, exit, inFlight, delivered, taken>>
    /\ procUnchanged

\* GET /healthz
Healthz ==
    /\ exit = "running"
    /\ srv = "serving"
    /\ resp' = [path |-> "/healthz", status |-> 200]
    /\ UNCHANGED <<env, mainPc, sigPc, webhookStream, eventStream, consContext,
                   srv, done, connected, cb, exit, inFlight, delivered, taken>>
    /\ procUnchanged

\* Variant: /readyz does not look at the connection.
ReadyzAlwaysReady ==
    /\ exit = "running"
    /\ srv = "serving"
    /\ resp' = [path |-> "/readyz", status |-> 200]
    /\ UNCHANGED <<env, mainPc, sigPc, webhookStream, eventStream, consContext,
                   srv, done, connected, cb, exit, inFlight, delivered, taken>>
    /\ procUnchanged

\* GET /readyz
Readyz ==
    /\ exit = "running"
    /\ srv = "serving"
    /\ resp' = [path |-> "/readyz",
                status |-> IF connected THEN 200 ELSE 503]
    /\ UNCHANGED <<env, mainPc, sigPc, webhookStream, eventStream, consContext,
                   srv, done, connected, cb, exit, inFlight, delivered, taken>>
    /\ procUnchanged

NextMain ==
    \/ MainConnect
    \/ MainCreateWebhookStream
    \/ MainCreateEventStream
    \/ MainCreateConsumer
    \/ MainConsume
    \/ MainStartWorker
    \/ MainStartSignalTask
    \/ MainListenAndServe
    \/ MainServeReturns
    \/ MainCloseDone
    \/ MainAllDone
    \/ MainTimeout
    \/ Signal
    \/ SigShutdownBegin
    \/ SigShutdownEnd
    \/ WorkerStop
    \/ ConnectionChange
    \/ Healthz
    \/ Readyz
    \/ CallbackSend
    \/ \E m \in LifecycleMessages : ProcessBegin(m)
    \/ WorkerLoop
    \/ ProcessMetadata
    \/ ProcessDecode
    \/ ProcessRoute
    \/ ProcessTranslate
    \/ ProcessPublish
    \/ ProcessAck

SpecMain == InitMain /\ [][NextMain]_vars

\* The steps of main from ListenAndServe on and the steps of the signal task
\* are taken once they can be: both goroutines are scheduled, srv.Shutdown
\* returns when its 10 s context ends at the latest, ListenAndServe returns
\* once Shutdown was called, and the 30 s timer of the last select fires.
\* Nothing is assumed of the worker, the callback or the broker.
ShutdownFairness ==
    /\ WF_vars(MainListenAndServe)
    /\ WF_vars(MainServeReturns)
    /\ WF_vars(MainCloseDone)
    /\ WF_vars(MainAllDone \/ MainTimeout)
    /\ WF_vars(SigShutdownBegin)
    /\ WF_vars(SigShutdownEnd)

SpecMainFair == InitMain /\ [][NextMain]_vars /\ ShutdownFairness

(***************************************************************************)
(* Properties.                                                             *)
(***************************************************************************)
CallIdx(op) == {i \in 1..Len(calls) : calls[i].op = op}
Count(op) == Cardinality(CallIdx(op))

\* Process is over: it returned to the worker, or a panic left it.
Over == pc \in {"returned", "panicked"}

\* Number of dot-separated segments of a subject.
Segments(subject) ==
    1 + Cardinality({i \in 1..Len(subject) : subject[i] = "."})

\* The subject without its first segment and the dot that ends it.
RECURSIVE AfterFirstDot(_)
AfterFirstDot(subject) ==
    IF subject = <<>> THEN <<>>
    ELSE IF Head(subject) = "." THEN Tail(subject)
    ELSE AfterFirstDot(Tail(subject))

RegisteredKeys == {KeyPush, KeyPullRequest, KeyCreate, KeyDelete}

RegisteredFor(key) ==
    CASE key = KeyPush -> "GiteaPushTranslator"
      [] key = KeyPullRequest -> "GiteaPullRequestTranslator"
      [] key = KeyCreate -> "GiteaCreateTranslator"
      [] key = KeyDelete -> "GiteaDeleteTranslator"
      [] OTHER -> "<none>"

\* The payload bytes are a JSON object or null.
Decodable(data) == data.json \in {"object", "objectMistyped", "null"}

\* C1: in every outcome of Process, msg.Ack is invoked exactly once, and
\* after every Translate and Publish call made for the message.
C1_AckOnceAfterAllCalls ==
    /\ Count("Ack") <= 1
    /\ \A i \in CallIdx("Ack") : i = Len(calls)
    /\ Over => Count("Ack") = 1

C1_Witness ==
    /\ pc = "returned"
    /\ Count("Translate") = 1 /\ Count("Publish") = 1
    /\ calls[Len(calls)].op = "Ack"

\* C2: a message whose translation succeeded is acknowledged only after its
\* event was published successfully; when Publish fails, Ack is not invoked.
C2_AckOnlyAfterSuccessfulPublish ==
    (cdEvent.kind = "event" /\ Count("Ack") > 0) =>
        \E i \in CallIdx("Publish") : calls[i].res = Nil

\* C3: when msg.Metadata() fails, Process returns that error, does not
\* invoke Ack, and invokes no translator and no publisher.
C3_MetadataFailureNotAcked ==
    metadata = "err" =>
        /\ Count("Ack") = 0 /\ Count("Translate") = 0 /\ Count("Publish") = 0
        /\ Over => ret = ErrMetadata

\* C4 as stated: whatever the payload, a subject of fewer than two segments
\* makes Process fail with "subject has to few parts" and neither a
\* translator nor the publisher is invoked.
C4_TooFewPartsWhateverPayload ==
    Segments(msg.subject) < 2 =>
        /\ Count("Translate") = 0 /\ Count("Publish") = 0
        /\ pc = "returned" => ret = ErrTooFewParts(msg.subject)

\* C4 amended: when the metadata is available and the payload is a JSON
\* object or null, a subject of fewer than two segments makes Process fail
\* with "subject has to few parts"; whatever the payload, neither a
\* translator nor the publisher is invoked for such a subject.
C4_TooFewPartsAfterDecode ==
    Segments(msg.subject) < 2 =>
        /\ Count("Translate") = 0 /\ Count("Publish") = 0
        /\ (pc = "returned" /\ metadata = "ok" /\ Decodable(msg.data)) =>
               ret = ErrTooFewParts(msg.subject)

C4_Witness ==
    /\ pc = "returned"
    /\ Segments(msg.subject) < 2
    /\ msg.subject # <<>>
    /\ ret = ErrTooFewParts(msg.subject)
    /\ Count("Ack") = 1

\* C5 as stated: whatever the payload, a routing key (the subject minus its
\* first segment) that is not registered makes Process fail with "no
\* translator found for subject: <key>", and the publisher is not invoked.
C5_NoTranslatorWhateverPayload ==
    AfterFirstDot(msg.subject) \notin RegisteredKeys =>
        /\ Count("Publish") = 0
        /\ pc = "returned" =>
               ret = "no translator found for subject: "
                         \o Flatten(AfterFirstDot(msg.subject))

\* C5 amended: when the metadata is available, the payload is a JSON object
\* or null and the subject has at least two segments, an unregistered
\* routing key makes Process fail with "no translator found for subject:
\* <key>"; whatever the payload, the publisher is not invoked for such a key.
C5_NoTranslatorAfterDecode ==
    AfterFirstDot(msg.subject) \notin RegisteredKeys =>
        /\ Count("Publish") = 0
        /\ (pc = "returned" /\ metadata = "ok" /\ Decodable(msg.data)
                /\ Segments(msg.subject) >= 2) =>
               ret = "no translator found for subject: "
                         \o Flatten(AfterFirstDot(msg.subject))

C5_Witness ==
    /\ pc = "returned"
    /\ msg.subject = <<"webhooks", ".", "gitea", ".", "push", ".", "push">>
    /\ ret = "no translator found for subject: gitea.push.push"
    /\ Count("Publish") = 0

\* C6 as stated: for every message whose subject has at least two segments
\* and a registered routing key, Process invokes the translator registered
\* for that key exactly once, with the message's payload, and no other.
C6_RegisteredTranslatorInvoked ==
    (Over /\ Segments(msg.subject) >= 2
          /\ AfterFirstDot(msg.subject) \in RegisteredKeys) =>
        /\ Count("Translate") = 1
        /\ \A i \in CallIdx("Translate") :
             /\ calls[i].who = RegisteredFor(AfterFirstDot(msg.subject))
             /\ calls[i].arg = msg.data

\* C6 amended: the same, for the messages whose metadata is available and
\* whose payload is a JSON object or null; for any other message with such
\* a subject no translator is invoked.
C6_RegisteredTranslatorInvokedAfterDecode ==
    (Over /\ Segments(msg.subject) >= 2
          /\ AfterFirstDot(msg.subject) \in RegisteredKeys) =>
        IF metadata = "ok" /\ Decodable(msg.data)
        THEN /\ Count("Translate") = 1
             /\ \A i \in CallIdx("Translate") :
                  /\ calls[i].who = RegisteredFor(AfterFirstDot(msg.subject))
                  /\ calls[i].arg = msg.data
        ELSE Count("Translate") = 0

C6_Witness ==
    /\ pc = "returned"
    /\ msg.subject = <<"webhooks", ".", "gitea", ".", "delete">>
    /\ Count("Translate") = 1
    /\ calls[1].who = "GiteaDeleteTranslator"
    /\ calls[1].arg = msg.data
    /\ calls[1].res = Nil

\* C7: whenever Translate succeeds inside Process, Publish is invoked
\* exactly once, with the event Translate returned and no other; Process
\* returns nil exactly when that call succeeded and its error otherwise.
C7_PublishOnceWithTranslatedEvent ==
    /\ Count("Publish") <= 1
    /\ \A i \in CallIdx("Publish") :
         /\ calls[1].op = "Translate" /\ calls[1].res = Nil
         /\ calls[i].arg = Translate(calls[1].who, msg.data).event
    /\ (pc = "returned" /\ Count("Translate") = 1 /\ calls[1].res = Nil) =>
         /\ Count("Publish") = 1
         /\ \A i \in CallIdx("Publish") :
              /\ (ret = Nil) <=> (calls[i].res = Nil)
              /\ ret = calls[i].res

C7_Witness ==
    /\ pc = "returned"
    /\ Count("Publish") = 1
    /\ calls[2].op = "Publish" /\ calls[2].res = ErrPublish
    /\ ret = ErrPublish

\* C8: whenever Translate returns an error, Process returns that error,
\* Publish is never invoked for the message, and the message is acknowledged.
C8_TranslateErrorReturnedAndAcked ==
    \A i \in CallIdx("Translate") :
        calls[i].res \notin {Nil, "<panic>"} =>
            /\ Count("Publish") = 0
            /\ pc = "returned" => (ret = calls[i].res /\ Count("Ack") = 1)

C8_Witness ==
    /\ pc = "returned"
    /\ Count("Translate") = 1
    /\ calls[1].res = ErrNoNewCommits
    /\ ret = ErrNoNewCommits
    /\ Count("Publish") = 0 /\ Count("Ack") = 1

\* The host (with its port) and the repository path a raw URL names.
UrlHostOf(raw) == Flatten(SelectSeq(raw, LAMBDA t : t \in {HostTok, PortTok}))
UrlPathOf(raw) == Flatten(SelectSeq(raw, LAMBDA t : t = PathTok))

\* C9: every event a translator returns without error has non-empty source,
\* subjectId and subjectSource, and subjectSource is source followed by the
\* repository path of the payload's repository URL.
C9_SourcesNonEmptyAndConsistent ==
    \A i \in CallIdx("Translate") :
        calls[i].res = Nil =>
            /\ cdEvent.event.source # ""
            /\ cdEvent.event.subjectId # ""
            /\ cdEvent.event.subjectSource # ""
            /\ cdEvent.event.subjectSource =
                   cdEvent.event.source \o UrlPathOf(msg.data.html_url)

\* C10: for every push payload reporting at least one new commit, the push
\* translator returns a "change merged" event whose subjectId is the head
\* commit hash, with source = host, subjectSource = host + repository path
\* and repository id = the repository full name.
C10_PushSubjectIdIsHeadCommit ==
    \A i \in CallIdx("Translate") :
        (calls[i].who = "GiteaPushTranslator" /\ msg.data.json = "object"
             /\ msg.data.total_commits >= 1) =>
            /\ calls[i].res = Nil
            /\ cdEvent.event.type = ChangeMergedEventType
            /\ cdEvent.event.subjectId = msg.data.head_commit
            /\ cdEvent.event.source = UrlHostOf(msg.data.html_url)
            /\ cdEvent.event.subjectSource =
                   UrlHostOf(msg.data.html_url) \o UrlPathOf(msg.data.html_url)
            /\ cdEvent.event.repositoryId = msg.data.full_name

\* C11: for every inbound message Process returns to the worker with nil or
\* an error and never panics, so the worker stays alive.
C11_ProcessNeverPanics ==
    /\ pc # "panicked"
    /\ \A i \in CallIdx("Translate") : calls[i].res # "<panic>"

\* The payload decodes into the translators' structs.
DecodesIntoStruct(data) == data.json \in {"object", "null"}

\* C14: the pull request translator selects the variant from the action
\* field: "opened" yields a "change created" event, "closed" a "change
\* merged" event, both with subjectId "pr-<pull request id>"; every other
\* action yields an error naming that value, and no event.
C14_PullRequestVariantByAction ==
    \A i \in CallIdx("Translate") :
        (calls[i].who = "GiteaPullRequestTranslator"
             /\ DecodesIntoStruct(msg.data)) =>
            CASE msg.data.action = "opened" ->
                   /\ calls[i].res = Nil
                   /\ cdEvent.event.type = "dev.cdevents.change.created.0.3.0"
                   /\ msg.data.pr_id = 3 => cdEvent.event.subjectId = "pr-3"
                   /\ msg.data.pr_id = 0 => cdEvent.event.subjectId = "pr-0"
              [] msg.data.action = "closed" ->
                   /\ calls[i].res = Nil
                   /\ cdEvent.event.type = "dev.cdevents.change.merged.0.2.0"
                   /\ msg.data.pr_id = 3 => cdEvent.event.subjectId = "pr-3"
                   /\ msg.data.pr_id = 0 => cdEvent.event.subjectId = "pr-0"
              [] OTHER ->
                   /\ calls[i].res =
                          "unsupported Gitea Pull Request action: " \o msg.data.action
                   /\ cdEvent.kind = "error"
                   /\ cdEvent.event = NilEvent

C14_Witness ==
    /\ pc = "returned"
    /\ Count("Translate") = 1
    /\ calls[1].who = "GiteaPullRequestTranslator"
    /\ msg.data.action = "closed"
    /\ cdEvent.event.type = "dev.cdevents.change.merged.0.2.0"
    /\ cdEvent.event.subjectId = "pr-3"

\* C15: for create and delete payloads, ref_type "branch" yields a "branch
\* created" (create) or "branch deleted" (delete) event whose subjectId is
\* the payload's ref; every other ref_type yields a translation error naming
\* the unsupported type, and no event.
C15_BranchEventByRefType ==
    \A i \in CallIdx("Translate") :
        (calls[i].who \in {"GiteaCreateTranslator", "GiteaDeleteTranslator"}
             /\ DecodesIntoStruct(msg.data)) =>
            IF msg.data.ref_type = "branch"
            THEN /\ calls[i].res = Nil
                 /\ cdEvent.event.type =
                        IF calls[i].who = "GiteaCreateTranslator"
                        THEN "dev.cdevents.branch.created.0.2.0"
                        ELSE "dev.cdevents.branch.deleted.0.2.0"
                 /\ cdEvent.event.subjectId = msg.data.ref
            ELSE /\ calls[i].res =
                        "unsupported Gitea create ref type: " \o msg.data.ref_type
                 /\ cdEvent.kind = "error"
                 /\ cdEvent.event = NilEvent

C15_Witness ==
    /\ pc = "returned"
    /\ Count("Translate") = 1
    /\ calls[1].who = "GiteaDeleteTranslator"
    /\ msg.data.ref_type = "branch" /\ msg.data.ref = "foo"
    /\ cdEvent.event.type = "dev.cdevents.branch.deleted.0.2.0"
    /\ cdEvent.event.subjectId = "foo"

\* The streams main asked for: a failed creation left a nil handle.
StreamCreationFailed == webhookStream = "nil" \/ eventStream = "nil"

\* The worker goroutine runs (it waits at its select or is inside Process).
WorkerRuns == pc \notin {"notStarted", "stopped", "panicked"}

\* C12: once connecting, creating or updating either stream, or creating
\* the consumer has failed at startup, the process has terminated with a
\* non-zero status, and neither does the worker run nor the listener serve.
C12_StartupFailureIsFatal ==
    /\ exit = "startup" => (~WorkerRuns /\ srv = "new")
    /\ StreamCreationFailed =>
         /\ ~WorkerRuns
         /\ srv # "serving"

\* C13: for every configured outbound prefix, every subject Publish sends an
\* event to is one the outbound stream "<prefix>.>" captures, and a Process
\* call that returned nil has made exactly one successful Publish.
C13_PublishedToOutboundStream ==
    /\ \A i \in CallIdx("Publish") :
         StreamCaptures(env.EventSubjectBase, SendSubject(calls[i].arg))
    /\ (pc = "returned" /\ ret = Nil) =>
         Cardinality({i \in CallIdx("Publish") : calls[i].res = Nil}) = 1

\* C16: every answer of GET /healthz is 200 whatever the connection, and
\* every answer of GET /readyz is 200 if the broker connection is
\* established at that moment and 503 if it is not.
C16_HealthAndReadiness ==
    [][resp' # resp =>
         /\ resp'.path \in {"/healthz", "/readyz"}
         /\ resp'.path = "/healthz" => resp'.status = 200
         /\ resp'.path = "/readyz" =>
              resp'.status = (IF connected THEN 200 ELSE 503)]_vars

C16_Witness ==
    /\ resp = [path |-> "/readyz", status |-> 503]
    /\ ~connected
    /\ srv = "serving"
    /\ exit = "running"

\* C17: in no state is the delivery callback blocked sending a message into
\* the channel while the worker has already exited.
C17_NoSendAfterWorkerExit == ~(cb = "sending" /\ pc = "stopped")

\* C18: once the done channel is closed the worker starts no new Process
\* call.
C18_NoProcessAfterDone == [][done => ~(pc = "idle" /\ pc' = "metadata")]_vars

\* C19: after a termination signal, the process does not exit while a
\* Process call is in flight, unless by the 30 s shutdown timeout.
C19_InFlightFinishesBeforeExit ==
    (/\ sigPc \in {"shutdown", "shuttingDown", "done"}
     /\ inFlight > 0
     /\ exit # "running") => exit = "timeout"

\* C20: at most one Process call is in flight at any time, and one is in
\* flight exactly while the worker is between taking a message and the return
\* of its acknowledgment.
C20_OneProcessAtATime ==
    /\ inFlight \in {0, 1}
    /\ inFlight = 1 <=>
         pc \in {"metadata", "decode", "route", "translate", "publish", "ack"}

C20_Witness ==
    /\ inFlight = 1
    /\ pc = "publish"
    /\ cb = "sending"

\* C21: messages are processed in the order the broker delivered them to the
\* callback: the worker takes the deliveries one by one in their order, none
\* skipped, each only when Process of the previous one has returned, and at
\* most one delivery waits in the channel.
C21_DeliveryOrderPreserved ==
    [][/\ taken' # taken =>
            /\ pc = "idle"
            /\ pc' = "metadata"
            /\ taken' = taken + 1
       /\ delivered' \in {taken', taken' + 1}
       /\ Len(calls') > Len(calls) => taken' = taken]_vars

C21_Witness ==
    /\ taken = 2
    /\ delivered = 2
    /\ pc = "ack"
    /\ Count("Publish") = 1

\* The signal task has received a termination signal.
Signalled == sigPc \in {"shutdown", "shuttingDown", "done"}

C23_ExactKeyMatchOnly ==
    /\ translator # "" =>
         /\ Segments(msg.subject) >= 2
         /\ AfterFirstDot(msg.subject) \in RegisteredKeys
         /\ translator = RegisteredFor(AfterFirstDot(msg.subject))
    /\ \A i \in CallIdx("Translate") : calls[i].who = translator

C23_Witness ==
    /\ pc = "returned"
    /\ msg.subject = <<"hooks", ".", "gitea", ".", "push">>
    /\ translator = "GiteaPushTranslator"
    /\ Count("Translate") = 1

\* fmt.Sprintf("%T", giteaEvent) for the struct each translator decodes into.
KindOf(name) ==
    CASE name = "GiteaPushTranslator" -> "structs.GiteaPushEvent"
      [] name = "GiteaPullRequestTranslator" -> "structs.GiteaPullRequestEvent"
      [] name = "GiteaCreateTranslator" -> "structs.GiteaCreateEvent"
      [] name = "GiteaDeleteTranslator" -> "structs.GiteaDeleteEvent"
      [] OTHER -> ""

\* C24: every event a translator returns without error carries as custom
\* data the wrapper {Kind, Content} of the decoded payload, Kind naming the
\* translator's payload type; no untagged block written earlier in the same
\* Translate call is left, and the event handed to Publish carries the same.
C24_CustomDataIsTaggedWrapper ==
    /\ \A i \in CallIdx("Translate") :
         calls[i].res = Nil =>
             /\ KindOf(calls[i].who) # ""
             /\ cdEvent.event.customData =
                    [Kind |-> KindOf(calls[i].who), Content |-> msg.data]
    /\ \A i \in CallIdx("Publish") :
         /\ calls[i].arg.customData.Kind = KindOf(translator)
         /\ calls[i].arg.customData.Content = msg.data

C24_Witness ==
    /\ pc = "returned"
    /\ Count("Translate") = 1
    /\ calls[1].who = "GiteaPullRequestTranslator"
    /\ calls[1].res = Nil
    /\ Count("Publish") = 1
    /\ calls[2].arg.customData.Kind = "structs.GiteaPullRequestEvent"
    /\ calls[2].arg.customData.Content = msg.data

\* The decode errors of json.Unmarshal into a map, by the form of the bytes.
DecodeErrorOf(data) ==
    CASE data.json = "array" -> ErrJsonType
      [] data.json = "invalid" -> ErrJsonSyntax
      [] OTHER -> Nil

\* What the claim says of a message that fails to decode: no lookup, no
\* translator, no publisher, the decode error returned, the message
\* acknowledged.
StoppedAtDecode ==
    /\ translator = ""
    /\ Count("Translate") = 0 /\ Count("Publish") = 0
    /\ pc \notin {"route", "translate", "publish"}
    /\ pc = "returned" =>
         /\ ret \in {ErrJsonSyntax, ErrJsonType}
         /\ Count("Ack") = 1

\* C25 as stated: every message whose payload is not a JSON object stops at
\* the decode step with the decode error, whatever its subject.
C25_NonObjectStopsAtDecode ==
    (pc # "idle" /\ msg.data.json \notin {"object", "objectMistyped"}) =>
        StoppedAtDecode

\* C25 amended: every message whose metadata is available and whose payload
\* is neither a JSON object nor null stops at the decode step with the decode
\* error of its bytes, whatever its subject; a null payload decodes without
\* error and is routed by its subject like an object.
C25_UndecodableStopsAtDecode ==
    /\ (pc # "idle" /\ metadata = "ok"
            /\ msg.data.json \notin {"object", "objectMistyped", "null"}) =>
         /\ StoppedAtDecode
         /\ pc = "returned" => ret = DecodeErrorOf(msg.data)
    /\ (pc = "returned" /\ metadata = "ok" /\ msg.data.json = "null") =>
         ret \notin {ErrJsonSyntax, ErrJsonType}

C25_Witness ==
    /\ pc = "returned"
    /\ msg.subject = <<"push">>
    /\ msg.data.json = "invalid"
    /\ ret = ErrJsonSyntax
    /\ Count("Ack") = 1
    /\ Len(calls) = 1

\* C26: the outcome of msg.Ack is never observed: the step that makes the
\* call leaves the value Process returns as it was, whether the call
\* succeeds or fails, and what the worker gets is that value only; whether
\* Process returns or panics does not depend on it either.
C26_AckOutcomeUnobserved ==
    [][(pc = "ack" /\ pc' # "ack") =>
          /\ calls' = Append(calls, AckCall(calls'[Len(calls')].res))
          /\ calls'[Len(calls')].res \in {Nil, ErrAck}
          /\ ret' = ret
          /\ pc' = (IF cdEvent.kind = "panic" THEN "panicked" ELSE "returned")
          /\ <<msg, cdEvent, cb, delivered, taken>>' =
                 <<msg, cdEvent, cb, delivered, taken>>]_vars

C26_Witness ==
    /\ pc = "returned"
    /\ ret = Nil
    /\ Len(calls) = 3
    /\ calls[2].op = "Publish" /\ calls[2].res = Nil
    /\ calls[3].op = "Ack" /\ calls[3].res = ErrAck

====
